---- MODULE Spec2Model ----
(***************************************************************************)
(* permetix: the Rust license client library (clients/rust/src/lib.rs) and *)
(* the stress-test harness (stress-test/src/main.rs), as state machines.   *)
(*                                                                         *)
(*   Spec       : one run of the stress-test harness (main + N workers)    *)
(*                against a license server.                                *)
(*   SpecClient : a caller of the client library (LicenseClient and its    *)
(*                LicenseHandle values) against a license server.          *)
(***************************************************************************)
EXTENDS Integers, Sequences, FiniteSets, TLC

(***************************************************************************)
(* Bounds of the model.                                                    *)
(***************************************************************************)
MaxWorkers == 3

MaxOps == 2

MaxTotalOps == 4

MaxRampWorkers == 4

MaxHandles == 2

Epsilon == 50

(***************************************************************************)
(* The wire: what a request can come back with.                            *)
(***************************************************************************)
Statuses == {200, 201, 404, 409}

\* "full": {id, tool, user, borrowed_at}; "id_only": {id}; "malformed": no id.
BodyShapes == {"full", "id_only", "malformed"}

TransportFailure == [kind |-> "transport", status |-> 0, body |-> "none"]

HttpReply(s, b) == [kind |-> "http", status |-> s, body |-> b]

Replies == {TransportFailure} \cup {HttpReply(s, b) : s \in Statuses, b \in BodyShapes}

\* What can come back for a return request; nothing reads the body of a 2xx.
ReturnReplies ==
    {TransportFailure, HttpReply(200, "full"), HttpReply(404, "malformed"),
     HttpReply(409, "malformed")}

\* The replies the harness is run against: one status of each class.
HarnessReplies ==
    {TransportFailure} \cup {HttpReply(s, b) : s \in {200, 409, 500}, b \in {"full", "id_only"}}

\* http::StatusCode::is_success: 200 <= status < 300
IsSuccess(status) == status >= 200 /\ status < 300

(***************************************************************************)
(* The license server, as far as a client can see it: a 2xx reply to a     *)
(* borrow means a lease was granted under a fresh id, a 2xx reply to a     *)
(* return means that lease was taken back.  Admission control is opaque:   *)
(* the status of each reply is a free choice.  Lease ids are opaque tokens, *)
(* unique per lease: the n-th lease granted to a user is <<user, n>>.      *)
(***************************************************************************)
NoId == <<>>

ServerInit(b0) == [borrowed0 |-> b0, active |-> {}, issued |-> {}]

ServerBorrowed(s) == s.borrowed0 + Cardinality(s.active)

ServerNextId(s, user) == <<user, Cardinality({i \in s.issued : i[1] = user}) + 1>>

ServerBorrow(s, user, reply) ==
    IF reply.kind = "http" /\ IsSuccess(reply.status)
    THEN [s EXCEPT !.active = @ \cup {ServerNextId(s, user)},
                   !.issued = @ \cup {ServerNextId(s, user)}]
    ELSE s

ServerReturn(s, id, reply) ==
    IF reply.kind = "http" /\ IsSuccess(reply.status)
    THEN [s EXCEPT !.active = @ \ {id}]
    ELSE s

\* What kind of server a run has met so far: only409 while every borrow was
\* answered 409; accepting while every borrow and every return was answered
\* 2xx (whatever the body of the borrow reply).
ServedInit == [only409 |-> TRUE, accepting |-> TRUE]

ServedBorrow(sv, reply) ==
    [only409   |-> sv.only409 /\ reply.kind = "http" /\ reply.status = 409,
     accepting |-> sv.accepting /\ reply.kind = "http" /\ IsSuccess(reply.status)]

ServedReturn(sv, reply) ==
    [sv EXCEPT !.accepting = @ /\ reply.kind = "http" /\ IsSuccess(reply.status)]

(***************************************************************************)
(* State.                                                                  *)
(***************************************************************************)
VARIABLES
    \* ---- stress-test harness ----
    args,          \* Args: workers, operations, mode, ramp_up
    mainPc,        \* where main is: "probe", "launch", "join", "report", "exited"
    exitCode,      \* process exit code, -1 while running
    launchIdx,     \* worker_id of the launch loop
    launchClock,   \* ms slept by the launch loop so far
    startOffset,   \* per worker: launchClock when it was spawned (-1: not yet)
    permits,       \* available permits of the semaphore
    wpc,           \* per worker: "unspawned","idle","borrowing","holding","returning","delay","done"
    wi,            \* per worker: loop index i
    wpermit,       \* per worker: holds _permit
    wstats,        \* per worker: TestStats
    wlease,        \* per worker: borrow_response.id of the current cycle (NoId: none)
    wreq,          \* per worker: the request in flight
    joinIdx,       \* index of the handle main awaits
    all_stats,     \* main's aggregate TestStats
    server,        \* the license server the harness talks to
    served,        \* what the harness has been answered so far (see Served)
    \* ---- client library ----
    client,        \* LicenseClient: base_url, enable_security
    handles,       \* the LicenseHandle values created so far
    lastBorrow,    \* the last LicenseClient::borrow call that came back, and its result
    inflight,      \* the calls waiting at their send().await, in the order they began
    cserver        \* the license server the library talks to

hvars == <<args, mainPc, exitCode, launchIdx, launchClock, startOffset, permits,
           wpc, wi, wpermit, wstats, wlease, wreq, joinIdx, all_stats, server,
           served>>

cvars == <<client, handles, lastBorrow, inflight, cserver>>

vars == <<hvars, cvars>>

(***************************************************************************)
(* stress-test/src/main.rs                                                 *)
(***************************************************************************)
Modes == {"full-cycle", "checkout-only", "return-all"}

\* --ramp-up, in seconds
RampUps == {0, 1, 2}

TestStatsNew ==
    [successful_borrows |-> 0, failed_borrows |-> 0,
     successful_returns |-> 0, failed_returns |-> 0]

NoRequest == [op |-> "none", id |-> NoId]

\* let user = format!("stress-worker-{}", worker_id);
User(worker_id) == worker_id

Workers == 0 .. (args.workers - 1)

\* Mutant: every HTTP reply to a borrow is taken for a lease.
BorrowLicenseOk_anyStatus(reply) == reply.kind = "http"

\* borrow_license: Ok(BorrowResponse) only for a 2xx reply whose body has all of
\* id, tool, user, borrowed_at; everything else is Err(String).
BorrowLicenseOk(reply) ==
    reply.kind = "http" /\ IsSuccess(reply.status) /\ reply.body = "full"

\* return_license: Ok(()) for any 2xx reply.
ReturnLicenseOk(reply) ==
    reply.kind = "http" /\ IsSuccess(reply.status)

\* get_status: Ok(Vec<StatusResponse>) for a 2xx reply whose body decodes.
GetStatusOk(reply) ==
    reply.kind = "http" /\ IsSuccess(reply.status) /\ reply.body = "full"

\* Mutant: a failed borrow counted twice.
CountBorrow_twice(stats, reply) ==
    IF BorrowLicenseOk(reply)
    THEN [stats EXCEPT !.successful_borrows = @ + 1]
    ELSE [stats EXCEPT !.failed_borrows = @ + 2]

\* The borrow match's counting: Ok(_) adds to successful_borrows, Err(_), a
\* String whatever went wrong, adds to failed_borrows.
CountBorrow(stats, reply) ==
    IF BorrowLicenseOk(reply)
    THEN [stats EXCEPT !.successful_borrows = @ + 1]
    ELSE [stats EXCEPT !.failed_borrows = @ + 1]

\* Mutant: a semaphore one permit short of the worker count.
SemaphoreCapacity_short == args.workers - 1

\* Semaphore::new(args.workers)
SemaphoreCapacity == args.workers

\* Mutant: the acquire that takes no permit out of the semaphore.
AcquirePermit_keep(p) == p

AcquirePermit(p) == p - 1

\* Mutant: the permit that is never given back.
ReleasePermit_leak(p) == p

ReleasePermit(p) == p + 1

\* let delay = (args.ramp_up * 1000) / args.workers as u64;
\* sleep(Duration::from_millis(delay * worker_id as u64))
RampUpSleep(ramp_up, workers, worker_id) ==
    IF ramp_up > 0 THEN ((ramp_up * 1000) \div workers) * worker_id ELSE 0

\* for i in 0..operations: where the worker goes at the loop head
LoopHead(i, operations) == IF i < operations THEN "idle" ELSE "done"

\* Mutant: hold and return whatever the mode.
AfterBorrowOk_anyMode(mode) == "holding"

\* Ok branch of the borrow match: hold and return only in full-cycle mode
AfterBorrowOk(mode) == IF mode = "full-cycle" THEN "holding" ELSE "delay"

\* Mutant: a failed borrow ends the worker.
AfterBorrowErr_abort == "done"

\* Err branch of the borrow match
AfterBorrowErr == "delay"

\* Mutant: the merge that overwrites the failed counters instead of adding.
MergeStats_overwrite(all, stats) ==
    [successful_borrows |-> all.successful_borrows + stats.successful_borrows,
     failed_borrows     |-> stats.failed_borrows,
     successful_returns |-> all.successful_returns + stats.successful_returns,
     failed_returns     |-> stats.failed_returns]

\* main: all_stats.x += stats.x for the four counters
MergeStats(all, stats) ==
    [successful_borrows |-> all.successful_borrows + stats.successful_borrows,
     failed_borrows     |-> all.failed_borrows + stats.failed_borrows,
     successful_returns |-> all.successful_returns + stats.successful_returns,
     failed_returns     |-> all.failed_returns + stats.failed_returns]

\* Mutant: the handle that resolves before its worker has finished.
JoinReady_early(pc) == pc # "unspawned"

\* handle.await resolves once the worker's task has returned its stats
JoinReady(pc) == pc = "done"

\* Mutant: a run with failed operations exits with code 1.
ExitCodeAtEnd_strict(all) ==
    IF all.failed_borrows = 0 /\ all.failed_returns = 0 THEN 0 ELSE 1

\* main returns after the report whatever the counters say: exit code 0
ExitCodeAtEnd(all) == 0

\* The command lines of Spec: every mode, with and without ramp-up.
ArgsChecked ==
    {a \in [workers : 0 .. MaxWorkers, operations : 0 .. MaxOps,
            mode : Modes, ramp_up : RampUps] :
        a.workers * a.operations <= MaxTotalOps}

\* The command lines of SpecRamp: full-cycle runs with a ramp-up window.
ArgsRamp ==
    [workers : 1 .. MaxRampWorkers, operations : {1},
     mode : {"full-cycle"}, ramp_up : RampUps \ {0}]

HarnessInit(argSet) ==
    /\ args \in argSet
    /\ mainPc = "probe"
    /\ exitCode = -1
    /\ launchIdx = 0
    /\ launchClock = 0
    /\ startOffset = [w \in Workers |-> -1]
    /\ permits = 0
    /\ wpc = [w \in Workers |-> "unspawned"]
    /\ wi = [w \in Workers |-> 0]
    /\ wpermit = [w \in Workers |-> FALSE]
    /\ wstats = [w \in Workers |-> TestStatsNew]
    /\ wlease = [w \in Workers |-> NoId]
    /\ wreq = [w \in Workers |-> NoRequest]
    /\ joinIdx = 0
    /\ all_stats = TestStatsNew
    /\ server = ServerInit(0)
    /\ served = ServedInit

(***************************************************************************)
(* clients/rust/src/lib.rs                                                 *)
(***************************************************************************)
BaseUrls == {"http://localhost:8000", "http://licenses:9000"}

\* The (tool, user) arguments borrow is called with.
Calls == {<<"cad_tool", "alice">>, <<"ECU Suite", "bob">>}

Tools == {c[1] : c \in Calls}

Users == {c[2] : c \in Calls}

\* LicenseClient::with_security
WithSecurity(base_url, enable_security) ==
    [base_url |-> base_url, enable_security |-> enable_security]

\* LicenseClient::new: security enabled by default
LicenseClientNew(base_url) == WithSecurity(base_url, TRUE)

\* const VENDOR_SECRET, const VENDOR_ID
VENDOR_SECRET == "techvendor_secret_ecu_2025_demo_xyz789abc123def456"

VENDOR_ID == "techvendor"

\* What SystemTime::now() can read when borrow is called, in seconds since the
\* epoch.
Clock == {1000, 1001}

\* get_timestamp: the seconds of the clock, as a decimal string
GetTimestamp(now) == ToString(now)

\* hex(HMAC-SHA256(key, message)), kept symbolic: equal exactly when key and
\* message are.
HmacSha256Hex(key, message) == "hmac-sha256(" \o key \o "," \o message \o ")"

\* let payload = format!("{}|{}|{}", tool, user, timestamp);
SignedPayload(tool, user, timestamp) == tool \o "|" \o user \o "|" \o timestamp

\* generate_signature: the MAC of format!("{}|{}|{}", tool, user, timestamp)
\* under the vendor secret
GenerateSignature(tool, user, timestamp) ==
    HmacSha256Hex(VENDOR_SECRET, SignedPayload(tool, user, timestamp))

SecurityHeaderNames == {"X-Signature", "X-Timestamp", "X-Vendor-ID"}

NoHeaders == [n \in {} |-> ""]

\* Mutant: the three headers added whatever the flag says.
SecurityHeaders_unconditional(c, tool, user, now) ==
    LET timestamp == GetTimestamp(now)
    IN  [n \in SecurityHeaderNames |->
            IF n = "X-Signature" THEN GenerateSignature(tool, user, timestamp)
            ELSE IF n = "X-Timestamp" THEN timestamp
            ELSE VENDOR_ID]

\* borrow: the headers it adds to the request when enable_security is set, the
\* timestamp read once and used both for the signature and for X-Timestamp
SecurityHeaders(c, tool, user, now) ==
    IF c.enable_security
    THEN LET timestamp == GetTimestamp(now)
         IN  [n \in SecurityHeaderNames |->
                 IF n = "X-Signature" THEN GenerateSignature(tool, user, timestamp)
                 ELSE IF n = "X-Timestamp" THEN timestamp
                 ELSE VENDOR_ID]
    ELSE NoHeaders

NoResult ==
    [kind |-> "none", tool |-> "none", status |-> 0, body |-> "none", handle |-> 0]

NoBorrow ==
    [called |-> FALSE, tool |-> "none", user |-> "none",
     now |-> 0, headers |-> NoHeaders,
     reply |-> TransportFailure, granted |-> NoId, result |-> NoResult]

\* Mutant: the success test made before the 409 test, so that 409 is one more
\* HttpError.
BorrowResult_late409(tool, reply, h) ==
    IF reply.kind = "transport"
    THEN [NoResult EXCEPT !.kind = "RequestFailed"]
    ELSE IF ~IsSuccess(reply.status)
    THEN [NoResult EXCEPT !.kind = "HttpError", !.status = reply.status, !.body = reply.body]
    ELSE IF reply.body = "malformed"
    THEN [NoResult EXCEPT !.kind = "RequestFailed"]
    ELSE [NoResult EXCEPT !.kind = "Ok", !.handle = h]

\* What LicenseClient::borrow makes of the reply, in the order the code tests it:
\* send().await? fails, status 409, any other non-2xx, response.json().await?
\* fails (a reqwest::Error, so RequestFailed), and else Ok(LicenseHandle) which
\* becomes handle number h.  The library's BorrowResponse needs only the id.
BorrowResult(tool, reply, h) ==
    IF reply.kind = "transport"
    THEN [NoResult EXCEPT !.kind = "RequestFailed"]
    ELSE IF reply.status = 409
    THEN [NoResult EXCEPT !.kind = "NoLicensesAvailable", !.tool = tool]
    ELSE IF ~IsSuccess(reply.status)
    THEN [NoResult EXCEPT !.kind = "HttpError", !.status = reply.status, !.body = reply.body]
    ELSE IF reply.body = "malformed"
    THEN [NoResult EXCEPT !.kind = "RequestFailed"]
    ELSE [NoResult EXCEPT !.kind = "Ok", !.handle = h]

\* What get_status and get_all_statuses make of the reply: send().await? fails,
\* any non-2xx status (409 as well) is HttpError, response.json().await? fails
\* (a reqwest::Error, so RequestFailed) unless the body has every field of
\* LicenseStatus, and else Ok.
StatusResult(reply) ==
    IF reply.kind = "transport"
    THEN [NoResult EXCEPT !.kind = "RequestFailed"]
    ELSE IF ~IsSuccess(reply.status)
    THEN [NoResult EXCEPT !.kind = "HttpError", !.status = reply.status, !.body = reply.body]
    ELSE IF reply.body # "full"
    THEN [NoResult EXCEPT !.kind = "RequestFailed"]
    ELSE [NoResult EXCEPT !.kind = "Ok"]

\* The LicenseHandle that borrow builds (lib.rs: Ok(LicenseHandle { ... })), with
\* what has happened to it since: owned (the caller still has the value),
\* explicit (return_license was called), requests (return requests sent for it),
\* result (what return_license gave), diagnostic (Drop printed its warning).
NewHandle(c, id, tool, user) ==
    [id |-> id, tool |-> tool, user |-> user, base_url |-> c.base_url,
     returned |-> FALSE,
     owned |-> TRUE, explicit |-> FALSE, requests |-> 0, result |-> "none",
     diagnostic |-> FALSE]

\* Mutant: return_license on a borrowed receiver, which leaves the handle usable.
CanReturn_again(hd) == TRUE

\* return_license takes self by value: only the owner of the handle can call it,
\* and the call uses the handle up.
CanReturn(hd) == hd.owned

\* Mutant: a 409 to the return taken for a success.
ReturnImplResult_conflictOk(reply) ==
    IF reply.kind = "transport" THEN "RequestFailed"
    ELSE IF ~IsSuccess(reply.status) /\ reply.status # 409 THEN "HttpError"
    ELSE "Ok"

\* return_impl: Err(RequestFailed) when send fails, Err(HttpError) for any
\* non-2xx status, Ok(()) for 2xx.
ReturnImplResult(reply) ==
    IF reply.kind = "transport" THEN "RequestFailed"
    ELSE IF ~IsSuccess(reply.status) THEN "HttpError"
    ELSE "Ok"

\* Mutant: the warning printed on every drop.
DropHandle_always(hd) ==
    [hd EXCEPT !.owned = FALSE, !.diagnostic = TRUE]

\* impl Drop for LicenseHandle: the warning when not returned; nothing is sent.
DropHandle(hd) ==
    [hd EXCEPT !.owned = FALSE, !.diagnostic = ~hd.returned]

\* return_license up to its send().await: self has been moved into the call, the
\* return request for its lease is out.
ReturnSend(hd) ==
    [hd EXCEPT !.owned = FALSE, !.explicit = TRUE, !.requests = @ + 1]

\* return_license once the reply is there: return_impl()?, then returned = true;
\* self is dropped when the function ends, on the ? path as well.
ReturnLicense(hd, reply) ==
    LET r == ReturnImplResult(reply)
        after == [hd EXCEPT !.result = r,
                            !.returned = IF r = "Ok" THEN TRUE ELSE @]
    IN  DropHandle(after)

\* A call of the library that is waiting at its send().await: the request as it
\* was built, and, once the server has dealt with it, the reply on its way back.
BorrowCall(c, tool, user, now) ==
    [op |-> "borrow", tool |-> tool, user |-> user, now |-> now,
     headers |-> SecurityHeaders(c, tool, user, now),
     handle |-> 0, id |-> NoId,
     answered |-> FALSE, reply |-> TransportFailure, granted |-> NoId]

ReturnCall(h, id) ==
    [op |-> "return", tool |-> "none", user |-> "none", now |-> 0,
     headers |-> NoHeaders,
     handle |-> h, id |-> id,
     answered |-> FALSE, reply |-> TransportFailure, granted |-> NoId]

\* The sequence without its i-th element.
Without(seq, i) == SubSeq(seq, 1, i - 1) \o SubSeq(seq, i + 1, Len(seq))

\* The borrow calls that have not been granted a lease.
Ungranted == {i \in DOMAIN inflight : inflight[i].op = "borrow" /\ inflight[i].granted = NoId}

ClientIdle ==
    /\ client = WithSecurity("none", FALSE)
    /\ handles = <<>>
    /\ lastBorrow = NoBorrow
    /\ inflight = <<>>
    /\ cserver = ServerInit(0)

ClientInit ==
    /\ client \in {LicenseClientNew(u) : u \in BaseUrls}
                  \cup {WithSecurity(u, e) : u \in BaseUrls, e \in BOOLEAN}
    /\ handles = <<>>
    /\ lastBorrow = NoBorrow
    /\ inflight = <<>>
    /\ cserver = ServerInit(0)

\* LicenseClient::borrow(tool, user) called when the clock reads now, up to its
\* send().await: the request is built, signed and sent.
ClientBorrowSend(tool, user, now) ==
    /\ Cardinality(cserver.issued) + Cardinality(Ungranted) < MaxHandles
    /\ inflight' = Append(inflight, BorrowCall(client, tool, user, now))
    /\ UNCHANGED <<client, handles, lastBorrow, cserver>>

\* The server deals with the borrow request of call i and answers with reply (a
\* transport failure: the call's send() is going to fail).
ServerBorrowReply(i, reply) ==
    /\ inflight[i].op = "borrow" /\ ~inflight[i].answered
    /\ cserver' = ServerBorrow(cserver, inflight[i].user, reply)
    /\ inflight' = [inflight EXCEPT
                      ![i].answered = TRUE,
                      ![i].reply = reply,
                      ![i].granted = IF reply.kind = "http" /\ IsSuccess(reply.status)
                                     THEN ServerNextId(cserver, inflight[i].user)
                                     ELSE NoId]
    /\ UNCHANGED <<client, handles, lastBorrow>>

\* LicenseClient::borrow after its send().await: the reply is classified and, on
\* Ok, the handle is built.
ClientBorrowDone(i) ==
    /\ inflight[i].op = "borrow" /\ inflight[i].answered
    /\ LET call == inflight[i]
           res  == BorrowResult(call.tool, call.reply, Len(handles) + 1)
       IN  /\ handles' = IF res.kind = "Ok"
                         THEN Append(handles,
                                     NewHandle(client, call.granted, call.tool, call.user))
                         ELSE handles
           /\ lastBorrow' = [called |-> TRUE, tool |-> call.tool, user |-> call.user,
                             now |-> call.now,
                             headers |-> call.headers,
                             reply |-> call.reply,
                             granted |-> call.granted,
                             result |-> res]
    /\ inflight' = Without(inflight, i)
    /\ UNCHANGED <<client, cserver>>

\* handle.return_license() up to its send().await.
ClientReturnSend(h) ==
    /\ CanReturn(handles[h])
    /\ handles' = [handles EXCEPT ![h] = ReturnSend(@)]
    /\ inflight' = Append(inflight, ReturnCall(h, handles[h].id))
    /\ UNCHANGED <<client, lastBorrow, cserver>>

\* The server deals with the return request of call i and answers with reply.
ServerReturnReply(i, reply) ==
    /\ inflight[i].op = "return" /\ ~inflight[i].answered
    /\ cserver' = ServerReturn(cserver, inflight[i].id, reply)
    /\ inflight' = [inflight EXCEPT ![i].answered = TRUE, ![i].reply = reply]
    /\ UNCHANGED <<client, handles, lastBorrow>>

\* handle.return_license() after its send().await.
ClientReturnDone(i) ==
    /\ inflight[i].op = "return" /\ inflight[i].answered
    /\ handles' = [handles EXCEPT ![inflight[i].handle] = ReturnLicense(@, inflight[i].reply)]
    /\ inflight' = Without(inflight, i)
    /\ UNCHANGED <<client, lastBorrow, cserver>>

\* The caller drops the future of call i while it waits at send().await (a
\* timeout, a select!): a borrow gives no result and no handle; a return drops
\* the handle it had taken, returned still false.
ClientCancel(i) ==
    /\ handles' = IF inflight[i].op = "return"
                  THEN [handles EXCEPT ![inflight[i].handle] = DropHandle(@)]
                  ELSE handles
    /\ inflight' = Without(inflight, i)
    /\ UNCHANGED <<client, lastBorrow, cserver>>

\* The handle goes out of scope without return_license.
ClientDrop(h) ==
    /\ handles[h].owned
    /\ handles' = [handles EXCEPT ![h] = DropHandle(@)]
    /\ UNCHANGED <<client, lastBorrow, inflight, cserver>>

\* The borrow calls of SpecClient, each with the clock reading it is made at.
TimedCalls == {<<"cad_tool", "alice", 1000>>, <<"ECU Suite", "bob", 1001>>}

\* What the server of SpecClient answers to a borrow: a lease, a lease in a body
\* the library cannot decode, no capacity.
LeaseReplies ==
    {HttpReply(200, "id_only"), HttpReply(200, "malformed"), HttpReply(409, "malformed")}

\* The life of handles: calls of borrow, return_license and drop that overlap.
NextClient ==
    \/ (\E c \in TimedCalls : ClientBorrowSend(c[1], c[2], c[3]))
          /\ UNCHANGED hvars
    \/ (\E i \in DOMAIN inflight, reply \in LeaseReplies : ServerBorrowReply(i, reply))
          /\ UNCHANGED hvars
    \/ (\E i \in DOMAIN inflight : ClientBorrowDone(i)) /\ UNCHANGED hvars
    \/ (\E h \in DOMAIN handles : ClientReturnSend(h)) /\ UNCHANGED hvars
    \/ (\E i \in DOMAIN inflight, reply \in ReturnReplies : ServerReturnReply(i, reply))
          /\ UNCHANGED hvars
    \/ (\E i \in DOMAIN inflight : ClientReturnDone(i)) /\ UNCHANGED hvars
    \/ (\E i \in DOMAIN inflight : ClientCancel(i)) /\ UNCHANGED hvars
    \/ (\E h \in DOMAIN handles : ClientDrop(h)) /\ UNCHANGED hvars

Init == HarnessInit(ArgsChecked) /\ ClientIdle

InitRamp == HarnessInit(ArgsRamp) /\ ClientIdle

\* main: the initial get_status probe; on Ok build the semaphore and enter the
\* launch loop, on Err exit(1).
Probe(reply) ==
    /\ mainPc = "probe"
    /\ IF GetStatusOk(reply)
       THEN /\ mainPc' = "launch"
            /\ permits' = SemaphoreCapacity
            /\ exitCode' = exitCode
       ELSE /\ mainPc' = "exited"
            /\ exitCode' = 1
            /\ permits' = permits
    /\ UNCHANGED <<args, launchIdx, launchClock, startOffset, wpc, wi, wpermit,
                   wstats, wlease, wreq, joinIdx, all_stats, server, served>>

\* main: one iteration of the launch loop: the ramp-up sleep, then tokio::spawn.
Launch ==
    /\ mainPc = "launch"
    /\ launchIdx < args.workers
    /\ LET t == launchClock + RampUpSleep(args.ramp_up, args.workers, launchIdx)
       IN  /\ launchClock' = t
           /\ startOffset' = [startOffset EXCEPT ![launchIdx] = t]
    /\ wpc' = [wpc EXCEPT ![launchIdx] = LoopHead(0, args.operations)]
    /\ launchIdx' = launchIdx + 1
    /\ UNCHANGED <<args, mainPc, exitCode, permits, wi, wpermit, wstats, wlease,
                   wreq, joinIdx, all_stats, server, served>>

\* main: the launch loop is over, go on to await the handles.
LaunchDone ==
    /\ mainPc = "launch"
    /\ launchIdx = args.workers
    /\ mainPc' = "join"
    /\ UNCHANGED <<args, exitCode, launchIdx, launchClock, startOffset, permits,
                   wpc, wi, wpermit, wstats, wlease, wreq, joinIdx, all_stats, server, served>>

\* run_worker: semaphore.acquire(), then the borrow request goes out.
Acquire(w) ==
    /\ wpc[w] = "idle"
    /\ permits > 0
    /\ permits' = AcquirePermit(permits)
    /\ wpermit' = [wpermit EXCEPT ![w] = TRUE]
    /\ wreq' = [wreq EXCEPT ![w] = [op |-> "borrow", id |-> NoId]]
    /\ wpc' = [wpc EXCEPT ![w] = "borrowing"]
    /\ UNCHANGED <<args, mainPc, exitCode, launchIdx, launchClock, startOffset,
                   wi, wstats, wlease, joinIdx, all_stats, server, served>>

\* run_worker: the borrow request comes back.
BorrowReply(w, reply) ==
    /\ wpc[w] = "borrowing"
    /\ server' = ServerBorrow(server, User(w), reply)
    /\ served' = ServedBorrow(served, reply)
    /\ wreq' = [wreq EXCEPT ![w] = NoRequest]
    /\ wstats' = [wstats EXCEPT ![w] = CountBorrow(@, reply)]
    /\ IF BorrowLicenseOk(reply)
       THEN /\ wlease' = [wlease EXCEPT ![w] = ServerNextId(server, User(w))]
            /\ wpc' = [wpc EXCEPT ![w] = AfterBorrowOk(args.mode)]
       ELSE /\ wlease' = [wlease EXCEPT ![w] = NoId]
            /\ wpc' = [wpc EXCEPT ![w] = AfterBorrowErr]
    /\ UNCHANGED <<args, mainPc, exitCode, launchIdx, launchClock, startOffset,
                   permits, wi, wpermit, joinIdx, all_stats>>

\* run_worker: the hold sleep is over, the return request goes out.
HoldElapsed(w) ==
    /\ wpc[w] = "holding"
    /\ wreq' = [wreq EXCEPT ![w] = [op |-> "return", id |-> wlease[w]]]
    /\ wpc' = [wpc EXCEPT ![w] = "returning"]
    /\ UNCHANGED <<args, mainPc, exitCode, launchIdx, launchClock, startOffset,
                   permits, wi, wpermit, wstats, wlease, joinIdx, all_stats, server, served>>

\* run_worker: the return request comes back.
ReturnReply(w, reply) ==
    /\ wpc[w] = "returning"
    /\ server' = ServerReturn(server, wreq[w].id, reply)
    /\ served' = ServedReturn(served, reply)
    /\ wreq' = [wreq EXCEPT ![w] = NoRequest]
    /\ IF ReturnLicenseOk(reply)
       THEN wstats' = [wstats EXCEPT ![w].successful_returns = @ + 1]
       ELSE wstats' = [wstats EXCEPT ![w].failed_returns = @ + 1]
    /\ wpc' = [wpc EXCEPT ![w] = "delay"]
    /\ UNCHANGED <<args, mainPc, exitCode, launchIdx, launchClock, startOffset,
                   permits, wi, wpermit, wlease, joinIdx, all_stats>>

\* run_worker: progress.inc, the 10 ms sleep, _permit dropped at the end of the
\* loop body, then the loop head.
EndCycle(w) ==
    /\ wpc[w] = "delay"
    /\ permits' = IF wpermit[w] THEN ReleasePermit(permits) ELSE permits
    /\ wpermit' = [wpermit EXCEPT ![w] = FALSE]
    /\ wlease' = [wlease EXCEPT ![w] = NoId]
    /\ wi' = [wi EXCEPT ![w] = @ + 1]
    /\ wpc' = [wpc EXCEPT ![w] = LoopHead(wi[w] + 1, args.operations)]
    /\ UNCHANGED <<args, mainPc, exitCode, launchIdx, launchClock, startOffset,
                   wstats, wreq, joinIdx, all_stats, server, served>>

\* main: handle.await of the next handle, its stats added to all_stats.
Join ==
    /\ mainPc = "join"
    /\ joinIdx < args.workers
    /\ JoinReady(wpc[joinIdx])
    /\ all_stats' = MergeStats(all_stats, wstats[joinIdx])
    /\ joinIdx' = joinIdx + 1
    /\ UNCHANGED <<args, mainPc, exitCode, launchIdx, launchClock, startOffset,
                   permits, wpc, wi, wpermit, wstats, wlease, wreq, server, served>>

\* main: every handle awaited; the report is printed.
JoinDone ==
    /\ mainPc = "join"
    /\ joinIdx = args.workers
    /\ mainPc' = "report"
    /\ UNCHANGED <<args, exitCode, launchIdx, launchClock, startOffset, permits,
                   wpc, wi, wpermit, wstats, wlease, wreq, joinIdx, all_stats, server, served>>

\* main: the final get_status (its result is only printed) and the return of main.
Report ==
    /\ mainPc = "report"
    /\ mainPc' = "exited"
    /\ exitCode' = ExitCodeAtEnd(all_stats)
    /\ UNCHANGED <<args, launchIdx, launchClock, startOffset, permits,
                   wpc, wi, wpermit, wstats, wlease, wreq, joinIdx, all_stats, server, served>>

Next ==
    \/ (\E reply \in HarnessReplies : Probe(reply)) /\ UNCHANGED cvars
    \/ Launch /\ UNCHANGED cvars
    \/ LaunchDone /\ UNCHANGED cvars
    \/ (\E w \in Workers : Acquire(w)) /\ UNCHANGED cvars
    \/ (\E w \in Workers, reply \in HarnessReplies : BorrowReply(w, reply)) /\ UNCHANGED cvars
    \/ (\E w \in Workers : HoldElapsed(w)) /\ UNCHANGED cvars
    \/ (\E w \in Workers, reply \in HarnessReplies : ReturnReply(w, reply)) /\ UNCHANGED cvars
    \/ (\E w \in Workers : EndCycle(w)) /\ UNCHANGED cvars
    \/ Join /\ UNCHANGED cvars
    \/ JoinDone /\ UNCHANGED cvars
    \/ Report /\ UNCHANGED cvars

Spec == Init /\ [][Next]_vars

SpecRamp == InitRamp /\ [][Next]_vars

\* The harness under a fair scheduler with requests that complete: whenever some
\* step of main or of a worker can be taken, one eventually is.
SpecFair == Init /\ [][Next]_vars /\ WF_vars(Next)

NoHarness == [workers |-> 0, operations |-> 0, mode |-> "full-cycle", ramp_up |-> 0]

InitClient == HarnessInit({NoHarness}) /\ ClientInit

SpecClient == InitClient /\ [][NextClient]_vars

\* The calls of borrow alone, one at a time, over every argument, clock reading
\* and reply.
NextBorrow ==
    \/ (inflight = <<>> /\ \E c \in Calls, now \in Clock :
            ClientBorrowSend(c[1], c[2], now)) /\ UNCHANGED hvars
    \/ (\E i \in DOMAIN inflight, reply \in Replies : ServerBorrowReply(i, reply))
          /\ UNCHANGED hvars
    \/ (\E i \in DOMAIN inflight : ClientBorrowDone(i)) /\ UNCHANGED hvars

SpecBorrow == InitClient /\ [][NextBorrow]_vars

\* The (tool, user) arguments of SpecSign: those of Calls, and two whose tool or
\* user contains the separator of the signed payload.
SignCalls == Calls \cup {<<"ECU|Suite", "bob">>, <<"ECU", "Suite|bob">>}

\* What the server of SpecSign answers: a lease, or nothing that arrives.
SignReplies == {HttpReply(200, "id_only"), TransportFailure}

\* The calls of borrow alone, one at a time, over SignCalls.
NextSign ==
    \/ (inflight = <<>> /\ \E c \in SignCalls, now \in Clock :
            ClientBorrowSend(c[1], c[2], now)) /\ UNCHANGED hvars
    \/ (\E i \in DOMAIN inflight, reply \in SignReplies : ServerBorrowReply(i, reply))
          /\ UNCHANGED hvars
    \/ (\E i \in DOMAIN inflight : ClientBorrowDone(i)) /\ UNCHANGED hvars

SpecSign == InitClient /\ [][NextSign]_vars

(***************************************************************************)
(* Properties of the harness.                                              *)
(***************************************************************************)
\* The semaphore exists from the end of a successful probe on.
SemaphoreLive == mainPc \in {"launch", "join", "report"} \/ exitCode = 0

\* A worker is inside a cycle from its acquire to the end of the loop body.
InCycle(w) == wpc[w] \in {"borrowing", "holding", "returning", "delay"}

InCycleCount == Cardinality({w \in Workers : InCycle(w)})

PermitHolders == Cardinality({w \in Workers : wpermit[w]})

AllDone == \A w \in Workers : wpc[w] = "done"

\* C1: in every reachable state the number of workers inside a cycle is at most
\* the number of permits taken out of the semaphore, and so at most its
\* capacity C; before the semaphore exists no worker is inside a cycle.
C1_PeakConcurrency ==
    IF SemaphoreLive
    THEN /\ permits >= 0
         /\ InCycleCount + permits <= SemaphoreCapacity
         /\ InCycleCount <= SemaphoreCapacity
    ELSE InCycleCount = 0

\* Every permit is out at once: as many workers inside a cycle as the capacity.
C1_Witness ==
    /\ SemaphoreCapacity >= 3
    /\ InCycleCount = SemaphoreCapacity
    /\ permits = 0

\* C2: a borrow request is in flight only from a worker that holds a permit, a
\* worker holds a permit exactly while it is inside a cycle, every permit out of
\* the semaphore is held by exactly one worker, and once all workers are Done
\* the available permits equal the initial capacity.
C2_PermitDiscipline ==
    SemaphoreLive =>
        /\ \A w \in Workers :
              /\ wreq[w].op = "borrow" => wpermit[w]
              /\ wpermit[w] <=> InCycle(w)
        /\ permits + PermitHolders = SemaphoreCapacity
        /\ AllDone => permits = SemaphoreCapacity

\* All workers Done after cycles that ended in each of the three ways, and the
\* semaphore is full again.
C2_Witness ==
    /\ args.workers >= 2
    /\ mainPc = "join"
    /\ AllDone
    /\ permits = SemaphoreCapacity
    /\ \E w \in Workers : wstats[w].failed_borrows > 0
    /\ \E w \in Workers : wstats[w].failed_returns > 0
    /\ \E w \in Workers : wstats[w].successful_returns > 0

\* main is past the join loop: every handle was awaited.
Joined == mainPc = "report" \/ exitCode = 0

BorrowAttempts(st) == st.successful_borrows + st.failed_borrows

\* C7: a worker that is Done has made exactly `operations` borrow attempts,
\* whatever failed, with or without ramp-up; until then its attempts are its
\* finished cycles plus the one in progress; and once main has merged every
\* worker the aggregate attempts are workers * operations.
C7_AllOperationsRun ==
    /\ \A w \in Workers :
          /\ wpc[w] = "done" => BorrowAttempts(wstats[w]) = args.operations
          /\ wpc[w] \in {"unspawned", "idle", "borrowing"} =>
                BorrowAttempts(wstats[w]) = wi[w]
          /\ wpc[w] \in {"holding", "returning", "delay"} =>
                BorrowAttempts(wstats[w]) = wi[w] + 1
    /\ Joined => BorrowAttempts(all_stats) = args.workers * args.operations

\* A ramped-up run of two workers with two operations each is over, with failed
\* borrows and failed returns in it.
C7_Witness ==
    /\ exitCode = 0
    /\ args.workers = 2 /\ args.operations = 2 /\ args.ramp_up > 0
    /\ all_stats.failed_borrows >= 1
    /\ all_stats.failed_returns >= 1
    /\ all_stats.successful_returns >= 1
    /\ \E w \in Workers : wstats[w].failed_borrows = 0

\* C8: with ramp-up R > 0 and W workers, worker k is started at an offset (in
\* ms) of at least k*R/W and less than (k+1)*R/W + Epsilon.
C8_LinearRampUp ==
    args.ramp_up > 0 =>
        \A k \in Workers :
            startOffset[k] # -1 =>
                /\ startOffset[k] >= (k * args.ramp_up * 1000) \div args.workers
                /\ startOffset[k] <
                      ((k + 1) * args.ramp_up * 1000) \div args.workers + Epsilon

\* The lease id the server gave in reply to worker w's latest borrow.
LatestLease(w) ==
    <<User(w), Cardinality({i \in server.issued : i[1] = User(w)})>>

\* C9: where a worker is and what it has in flight.
C9_State ==
    \A w \in Workers :
        /\ wpc[w] \in {"holding", "returning"} =>
              /\ args.mode = "full-cycle"
              /\ wlease[w] = LatestLease(w)
              /\ wlease[w] \in server.active
              /\ wstats[w].successful_borrows + wstats[w].failed_borrows = wi[w] + 1
        /\ wpc[w] = "holding" => wreq[w].op = "none"
        /\ wpc[w] = "returning" => wreq[w] = [op |-> "return", id |-> wlease[w]]
        /\ wpc[w] = "borrowing" <=> wreq[w].op = "borrow"
        /\ wreq[w].op = "return" => wpc[w] = "returning"
        /\ wstats[w].successful_returns + wstats[w].failed_returns
              <= wstats[w].successful_borrows
        /\ args.mode # "full-cycle" =>
              wstats[w].successful_returns + wstats[w].failed_returns = 0
        /\ wpc[w] = "done" => wi[w] = args.operations
        /\ wi[w] <= args.operations

\* C9: the steps a worker takes: Idle -> Borrowing -> (Holding -> Returning)? ->
\* end of cycle -> Idle, and Done after the last cycle.
C9_Step ==
    \A w \in Workers :
        wpc'[w] # wpc[w] =>
            \/ wpc[w] = "unspawned" /\ wpc'[w] \in {"idle", "done"}
            \/ wpc[w] = "idle" /\ wpc'[w] = "borrowing"
            \/ /\ wpc[w] = "borrowing" /\ wpc'[w] = "holding"
               /\ wstats'[w].successful_borrows = wstats[w].successful_borrows + 1
            \/ /\ wpc[w] = "borrowing" /\ wpc'[w] = "delay"
               /\ \/ wstats'[w].failed_borrows = wstats[w].failed_borrows + 1
                  \/ args.mode # "full-cycle"
            \/ wpc[w] = "holding" /\ wpc'[w] = "returning"
            \/ wpc[w] = "returning" /\ wpc'[w] = "delay"
            \/ /\ wpc[w] = "delay" /\ wpc'[w] \in {"idle", "done"}
               /\ wi'[w] = wi[w] + 1

\* C9: within a worker the steps of a cycle are sequential: a return is sent only
\* in full-cycle mode, after that cycle's borrow succeeded and its hold elapsed,
\* with the lease id of that borrow; the next borrow is sent only after the
\* cycle ended; after a failed borrow there is no hold and no return; in any
\* other mode there is never a hold or a return.
C9_CycleOrder == []C9_State /\ [][C9_Step]_vars

\* A worker in its second cycle, with the return request for its second lease in
\* flight.
C9_Witness ==
    \E w \in Workers :
        /\ wpc[w] = "returning"
        /\ wi[w] = 1
        /\ wreq[w] = [op |-> "return", id |-> <<User(w), 2>>]

\* C10: after a full-cycle run in which no return failed, the server's borrowed
\* count is what it was before the run.
C10_RoundTripNeutral ==
    (/\ args.mode = "full-cycle"
     /\ Joined
     /\ all_stats.failed_returns = 0) =>
        ServerBorrowed(server) = server.borrowed0

\* The sum of one counter over a set of workers, taken directly.
RECURSIVE SumField(_, _)
SumField(S, field) ==
    IF S = {} THEN 0
    ELSE LET w == CHOOSE x \in S : TRUE
         IN  wstats[w][field] + SumField(S \ {w}, field)

SumStats(S) ==
    [successful_borrows |-> SumField(S, "successful_borrows"),
     failed_borrows     |-> SumField(S, "failed_borrows"),
     successful_returns |-> SumField(S, "successful_returns"),
     failed_returns     |-> SumField(S, "failed_returns")]

\* Every order in which the workers of S can be merged.
Orders(S) ==
    {o \in [1 .. Cardinality(S) -> S] :
        \A i, j \in 1 .. Cardinality(S) : o[i] = o[j] => i = j}

\* The join loop's merge, run over the workers in the given order.
RECURSIVE MergeAll(_, _)
MergeAll(order, acc) ==
    IF order = <<>> THEN acc
    ELSE MergeAll(Tail(order), MergeStats(acc, wstats[Head(order)]))

\* C11: once the join loop is through, each of the four aggregate counters is
\* the sum of that counter over all workers, and merging the workers' statistics
\* in any other order gives the same aggregate.
C11_AggregateIsSum ==
    Joined =>
        /\ all_stats = SumStats(Workers)
        /\ \A o \in Orders(Workers) : MergeAll(o, TestStatsNew) = all_stats

\* A joined run of three workers with different statistics, failures among them.
C11_Witness ==
    /\ Joined
    /\ args.workers = 3
    /\ wstats[0] # wstats[1] /\ wstats[1] # wstats[2] /\ wstats[0] # wstats[2]
    /\ wstats[0].failed_borrows > 0 /\ wstats[1].failed_returns > 0
    /\ all_stats.successful_borrows = 2

\* C12: in a full-cycle run whose every borrow is answered 409 no borrow is
\* counted successful, no return request is ever sent and no return is counted,
\* and the joined run reports workers * operations failed borrows and zero for
\* the other three counters.
C12_AllRefused ==
    (args.mode = "full-cycle" /\ served.only409) =>
        /\ \A w \in Workers :
               /\ wstats[w].successful_borrows = 0
               /\ wstats[w].successful_returns = 0
               /\ wstats[w].failed_returns = 0
               /\ wpc[w] \notin {"holding", "returning"}
               /\ wreq[w].op # "return"
               /\ wlease[w] = NoId
        /\ server.issued = {}
        /\ Joined =>
               all_stats = [successful_borrows |-> 0,
                            failed_borrows     |-> args.workers * args.operations,
                            successful_returns |-> 0,
                            failed_returns     |-> 0]

\* Two workers of two operations each, every borrow refused: four failed borrows.
C12_Witness ==
    /\ args.mode = "full-cycle" /\ served.only409
    /\ Joined
    /\ args.workers = 2 /\ args.operations = 2
    /\ all_stats.failed_borrows = 4

\* C13: in a full-cycle run whose every borrow and every return the server
\* accepts (answers 2xx), the joined run reports workers * operations
\* successful borrows, as many successful returns and no failure, whatever the
\* interleaving of the workers.
C13_AllAccepted ==
    (args.mode = "full-cycle" /\ served.accepting /\ Joined) =>
        all_stats = [successful_borrows |-> args.workers * args.operations,
                     failed_borrows     |-> 0,
                     successful_returns |-> args.workers * args.operations,
                     failed_returns     |-> 0]

\* The two ways a borrow can fail on the wire.
NoCapacity(reply) == reply.kind = "http" /\ reply.status = 409

HardError(reply) ==
    \/ reply.kind = "transport"
    \/ reply.kind = "http" /\ ~IsSuccess(reply.status) /\ reply.status # 409

\* C14: the statistics keep 'no capacity' apart from hard errors: whenever a
\* worker is waiting for the answer to a borrow, the statistics it carries to the
\* aggregate after a 409 differ from those after a hard error.
C14_NoCapacityKeptApart ==
    \A w \in Workers :
        wpc[w] = "borrowing" =>
            \A r1, r2 \in HarnessReplies :
                (NoCapacity(r1) /\ HardError(r2)) =>
                    CountBorrow(wstats[w], r1) # CountBorrow(wstats[w], r2)

\* No worker was started and nothing was asked of the server beyond the probe.
NothingStarted ==
    /\ launchIdx = 0 /\ joinIdx = 0
    /\ \A w \in Workers :
           /\ wpc[w] = "unspawned"
           /\ wreq[w] = NoRequest
           /\ wstats[w] = TestStatsNew
    /\ server = ServerInit(server.borrowed0)
    /\ all_stats = TestStatsNew

\* C15: the harness exits non-zero only from a failed probe, and then no worker
\* was started and no borrow or return was ever sent; once the probe has
\* succeeded it never exits non-zero, and it exits zero only after every worker
\* ran to completion and was merged, however many operations failed.
C15_State ==
    /\ exitCode \in {-1, 0, 1}
    /\ (mainPc = "exited") = (exitCode # -1)
    /\ exitCode = 1 => NothingStarted
    /\ mainPc = "probe" => NothingStarted
    /\ exitCode = 0 => (AllDone /\ joinIdx = args.workers
                         /\ \A w \in Workers : BorrowAttempts(wstats[w]) = args.operations)

C15_Step ==
    /\ (exitCode' = 1 /\ exitCode # 1) => mainPc = "probe"
    /\ (mainPc = "probe" /\ mainPc' # "probe") => (exitCode' = 1) = (mainPc' = "exited")
    /\ (exitCode' = 0 /\ exitCode # 0) => mainPc = "report"

C15_ProbeGate == []C15_State /\ [][C15_Step]_vars

\* Exit code 0 after a run in which every borrow failed.
C15_Witness ==
    /\ exitCode = 0
    /\ args.workers = 2 /\ args.operations = 2
    /\ all_stats.successful_borrows = 0 /\ all_stats.failed_borrows = 4

\* Exit code 1 straight from the probe.
C15_WitnessProbeFailed ==
    /\ exitCode = 1 /\ args.workers = 2 /\ args.operations = 2 /\ NothingStarted

\* C18: under fair scheduling, with every request completing, a run whose probe
\* succeeded always gets every worker to Done and then through the join loop and
\* the report to exit code 0; in particular no worker stays at the semaphore for
\* ever and the run never stops short of its exit.
C18_Termination ==
    /\ (mainPc = "launch") ~> (AllDone /\ joinIdx = args.workers /\ exitCode = 0)
    /\ <>(mainPc = "exited")

\* A finished run of three workers that were started over a ramp-up window.
C18_Witness ==
    /\ mainPc = "exited" /\ exitCode = 0 /\ AllDone
    /\ args.workers = 3 /\ args.operations = 1 /\ args.ramp_up = 2
    /\ joinIdx = 3

\* The leases the server has granted to a worker so far.
IssuedTo(w) == {id \in server.issued : id[1] = User(w)}

ReturnAttempts(st) == st.successful_returns + st.failed_returns

\* C19: in full-cycle mode a worker that is between cycles, or Done, has sent a
\* return request for every lease the server granted it with a 2xx, whether or
\* not the harness could decode the 2xx body.
C19_EveryLeaseReturned ==
    args.mode = "full-cycle" =>
        \A w \in Workers :
            wpc[w] \in {"idle", "done"} =>
                ReturnAttempts(wstats[w]) = Cardinality(IssuedTo(w))

\* The workers the join loop has merged so far.
Merged == 0 .. (joinIdx - 1)

\* C20 (as stated): while some worker is not yet Done the aggregate counters are
\* all zero.
C20_MergeAfterAllDone ==
    ~AllDone => all_stats = TestStatsNew

\* C20 (amended): a worker's counters are added into the aggregate only after
\* that worker is Done, in launch order: in every state the aggregate is the sum
\* of the statistics of the workers merged so far, all of them Done with their
\* operations attempted, and no step changes the statistics of a merged worker.
C20_State ==
    /\ joinIdx \in 0 .. args.workers
    /\ all_stats = SumStats(Merged)
    /\ \A w \in Merged :
           wpc[w] = "done" /\ BorrowAttempts(wstats[w]) = args.operations
    /\ mainPc \in {"probe", "launch"} => joinIdx = 0

C20_Step ==
    \A w \in Workers : w < joinIdx => wstats'[w] = wstats[w]

C20_MergeAfterWorkerDone == []C20_State /\ [][C20_Step]_vars

\* Worker 0 is merged, with counters that are not zero, while worker 1 is still
\* in a cycle.
C20_Witness ==
    /\ joinIdx = 1
    /\ all_stats # TestStatsNew
    /\ args.workers >= 2 /\ wpc[1] \in {"borrowing", "holding", "returning"}

\* A worker's own state: everything run_worker keeps for worker w.
SameWorker(w) ==
    /\ wpc'[w] = wpc[w] /\ wi'[w] = wi[w] /\ wpermit'[w] = wpermit[w]
    /\ wstats'[w] = wstats[w] /\ wlease'[w] = wlease[w] /\ wreq'[w] = wreq[w]

\* Worker w takes a step: every step of run_worker moves its position.
WorkerStep(w) == wpc[w] # "unspawned" /\ wpc'[w] # wpc[w]

\* The step adds exactly 1 to one of the two counters f, g of worker w and
\* leaves its other counters alone.
CountsOne(w, f, g) ==
    /\ \/ wstats'[w] = [wstats[w] EXCEPT ![f] = @ + 1]
       \/ wstats'[w] = [wstats[w] EXCEPT ![g] = @ + 1]

C21_Step ==
    /\ \A w \in Workers :
          WorkerStep(w) =>
              /\ \A v \in Workers \ {w} : SameWorker(v)
              /\ all_stats' = all_stats
              /\ UNCHANGED <<args, mainPc, exitCode, launchIdx, joinIdx>>
              /\ IF wpc[w] = "idle" THEN permits' = permits - 1
                 ELSE IF wpc[w] = "delay" THEN permits' = permits + 1
                 ELSE permits' = permits
              /\ IF wpc[w] = "borrowing"
                 THEN CountsOne(w, "successful_borrows", "failed_borrows")
                 ELSE IF wpc[w] = "returning"
                 THEN CountsOne(w, "successful_returns", "failed_returns")
                 ELSE wstats'[w] = wstats[w]
    /\ wstats' # wstats => \E w \in Workers : WorkerStep(w)
    /\ all_stats' # all_stats => mainPc = "join" /\ wstats' = wstats

\* C21: a step of a worker changes only that worker's own state and counters
\* and the permit count (down by one at the acquire, up by one at the end of the
\* cycle); it leaves every other worker, the aggregate and main untouched; a
\* borrow outcome adds exactly 1 to one borrow counter, a return outcome exactly
\* 1 to one return counter, and no other step changes a counter.
C21_WorkerFrame == [][C21_Step]_vars

\* Worker 1 waits for the reply to the return of its second cycle, with a failed
\* borrow already counted, while worker 0 has counters of its own and nothing
\* has been merged.
C21_Witness ==
    /\ args.workers = 2
    /\ wpc[1] = "returning" /\ wi[1] = 1
    /\ wstats[1] = [TestStatsNew EXCEPT !.failed_borrows = 1, !.successful_borrows = 1]
    /\ wstats[0].successful_returns = 1
    /\ all_stats = TestStatsNew

\* The workers at the loop head, about to acquire.
AboutToAcquire == {w \in Workers : wpc[w] = "idle"}

\* C22: the semaphore has as many permits as there are workers and a worker
\* inside a cycle holds one permit, so every worker about to acquire finds a
\* permit: the permits available are never fewer than the workers waiting at
\* the loop head, whatever the other workers are doing.
C22_AcquireNeverBlocked ==
    SemaphoreLive =>
        /\ permits = args.workers - InCycleCount
        /\ permits >= Cardinality(AboutToAcquire)
        /\ \A w \in AboutToAcquire : permits > 0 /\ ~wpermit[w]

\* A worker about to acquire for its second cycle while the only other worker
\* is inside a cycle: one permit is left for it.
C22_Witness ==
    /\ args.workers = 2 /\ args.operations = 2
    /\ wpc[0] = "idle" /\ wi[0] = 1
    /\ InCycle(1)
    /\ permits = 1

\* Every worker inside a cycle at once.
C22_FullConcurrency ==
    /\ args.workers = 3
    /\ \A w \in Workers : InCycle(w)

(***************************************************************************)
(* Properties of the client library.                                       *)
(***************************************************************************)
Handles == DOMAIN handles

\* return_license has been called on handle h and its call has not ended.
ReturnInFlight(h) ==
    \E i \in DOMAIN inflight : inflight[i].op = "return" /\ inflight[i].handle = h

\* The handles as they stand: a handle's returned flag starts false, is set only by the
\* 2xx reply to its one return request, and never goes back to false; no more
\* than one return request is ever sent for a handle; a handle that was used up
\* by return_license (or dropped) takes no further return: nothing about it
\* changes and no request is sent for it.
C3_State ==
    \A h \in Handles :
        /\ handles[h].requests <= 1
        /\ handles[h].returned =>
              handles[h].requests = 1 /\ handles[h].result = "Ok" /\ ~handles[h].owned
        /\ handles[h].owned => ~handles[h].returned /\ handles[h].requests = 0

C3_Step ==
    /\ \A h \in Handles :
          /\ h \in DOMAIN handles'
          /\ handles[h].returned => handles'[h].returned
          /\ handles'[h].requests > handles[h].requests => handles[h].owned
          /\ (~handles[h].owned /\ ~ReturnInFlight(h)) => handles'[h] = handles[h]
    /\ \A h \in DOMAIN handles' \ Handles : ~handles'[h].returned

\* C3: returned goes from false to true at most once and never back, at most one
\* return request is sent per handle, and a used-up handle takes no second return.
C3_ReturnedOnce == []C3_State /\ [][C3_Step]_vars

\* One handle returned with success, another whose return failed.
C3_Witness ==
    \E h, k \in Handles :
        /\ handles[h].returned /\ handles[h].requests = 1
        /\ handles[k].explicit /\ ~handles[k].returned /\ handles[k].requests = 1

\* C4: a handle dropped without an explicit return_license has had a return
\* request issued for its lease id, and its lease is no longer borrowed.
C4_ReturnOnDrop ==
    \A h \in Handles :
        (~handles[h].owned /\ ~handles[h].explicit) =>
            /\ handles[h].requests >= 1
            /\ handles[h].id \notin cserver.active

\* C5: a dropped handle has produced the diagnostic exactly when its returned
\* flag was false at the drop: always when it was abandoned or its return
\* failed, never after a return that succeeded; a handle still owned has
\* produced none.
C5_DropDiagnostic ==
    \A h \in Handles :
        IF handles[h].owned \/ ReturnInFlight(h)
        THEN ~handles[h].diagnostic
        ELSE /\ handles[h].diagnostic <=> ~handles[h].returned
             /\ ~handles[h].explicit => handles[h].diagnostic
             /\ handles[h].result = "Ok" => ~handles[h].diagnostic
             /\ handles[h].result \in {"RequestFailed", "HttpError"} => handles[h].diagnostic

\* One handle abandoned (diagnostic), one returned with success (none), and the
\* caller went on after the abandoned one.
C5_Witness ==
    /\ Len(handles) = 2
    /\ ~handles[1].owned /\ ~handles[1].explicit /\ handles[1].diagnostic
    /\ ~handles[2].owned /\ handles[2].result = "Ok" /\ ~handles[2].diagnostic

\* The last borrow call: its three-way classification of the reply: 409 gives
\* NoLicensesAvailable with the tool; any other non-2xx gives HttpError with that
\* status and body; 2xx with a lease id gives a handle with that id, the tool and
\* user asked for, the client's base URL and returned = false.  A handle comes
\* into being only with an Ok outcome.
C6_State ==
    lastBorrow.called =>
        LET r   == lastBorrow.reply
            res == lastBorrow.result
        IN  /\ (r.kind = "http" /\ r.status = 409) =>
                  res.kind = "NoLicensesAvailable" /\ res.tool = lastBorrow.tool
            /\ (r.kind = "http" /\ r.status # 409 /\ ~IsSuccess(r.status)) =>
                  res.kind = "HttpError" /\ res.status = r.status /\ res.body = r.body
            /\ (r.kind = "http" /\ IsSuccess(r.status) /\ r.body \in {"full", "id_only"}) =>
                  /\ res.kind = "Ok"
                  /\ res.handle \in Handles
                  /\ handles[res.handle].id = lastBorrow.granted
                  /\ handles[res.handle].tool = lastBorrow.tool
                  /\ handles[res.handle].user = lastBorrow.user
                  /\ handles[res.handle].base_url = client.base_url
                  /\ handles[res.handle].owned => ~handles[res.handle].returned
            /\ res.kind # "Ok" => res.handle = 0

C6_Step ==
    /\ Len(handles') >= Len(handles)
    /\ Len(handles') > Len(handles) =>
          /\ Len(handles') = Len(handles) + 1
          /\ lastBorrow'.result.kind = "Ok"
          /\ lastBorrow'.result.handle = Len(handles')
          /\ ~handles'[Len(handles')].returned
    /\ (lastBorrow' # lastBorrow /\ lastBorrow'.result.kind # "Ok") => handles' = handles

\* C6: 409 gives NoLicensesAvailable(tool), any other non-2xx gives
\* HttpError(status, body), 2xx with an id gives a handle with that id, tool, user,
\* the client's base URL and returned = false; no handle on an error outcome.
C6_BorrowClassification == []C6_State /\ [][C6_Step]_vars

\* A 409 answered to a client that already holds a handle from a 2xx reply.
C6_Witness ==
    /\ lastBorrow.called
    /\ lastBorrow.reply.kind = "http" /\ lastBorrow.reply.status = 409
    /\ lastBorrow.result.kind = "NoLicensesAvailable"
    /\ Len(handles) = 1 /\ handles[1].owned /\ handles[1].base_url = client.base_url

\* The headers hd of a borrow request for (tool, user) built when the clock read
\* now are what the client's flag asks for.
HeadersAsClaimed(hd, tool, user, now) ==
    IF client.enable_security
    THEN /\ DOMAIN hd = SecurityHeaderNames
         /\ hd["X-Timestamp"] = GetTimestamp(now)
         /\ hd["X-Signature"] = GenerateSignature(tool, user, hd["X-Timestamp"])
         /\ hd["X-Vendor-ID"] = VENDOR_ID
    ELSE DOMAIN hd \cap SecurityHeaderNames = {}

\* C16: LicenseClient::new enables security; a borrow request of a client with
\* enable_security carries exactly X-Signature, X-Timestamp and X-Vendor-ID, the
\* timestamp being the clock at the call and the signature being computed over
\* the tool, the user and that same timestamp; a request of a client without
\* the flag carries none of the three.
C16_SecurityHeaders ==
    /\ \A u \in BaseUrls : LicenseClientNew(u).enable_security
    /\ \A i \in DOMAIN inflight :
          inflight[i].op = "borrow" =>
              HeadersAsClaimed(inflight[i].headers, inflight[i].tool,
                               inflight[i].user, inflight[i].now)
    /\ lastBorrow.called =>
          HeadersAsClaimed(lastBorrow.headers, lastBorrow.tool,
                           lastBorrow.user, lastBorrow.now)

\* A second borrow of a signing client, at the later clock reading.
C16_Witness ==
    /\ lastBorrow.called /\ client.enable_security
    /\ Len(handles) = 2
    /\ lastBorrow.now = 1001
    /\ lastBorrow.headers["X-Timestamp"] = "1001"

\* A borrow of a client built with security off.
C16_WitnessUnsigned ==
    /\ lastBorrow.called /\ ~client.enable_security
    /\ lastBorrow.headers = NoHeaders

\* C17: a borrow answered 2xx with a body that cannot be decoded gives
\* InvalidResponse, which is not what a transport failure gives; the same reply
\* to get_status or get_all_statuses gives InvalidResponse too.
C17_DecodeFailureKind ==
    lastBorrow.called =>
        LET r == lastBorrow.reply
        IN  (r.kind = "http" /\ IsSuccess(r.status) /\ r.body = "malformed") =>
                /\ lastBorrow.result.kind = "InvalidResponse"
                /\ lastBorrow.result.kind #
                      BorrowResult(lastBorrow.tool, TransportFailure, 0).kind
                /\ StatusResult(r).kind = "InvalidResponse"

\* The handles on which return_license has been called: a handle is used up by
\* the call; once the call has given its Result, an error goes with returned
\* false, the drop diagnostic and the lease still borrowed, and Ok with returned
\* true and no diagnostic.
C23_State ==
    \A h \in Handles :
        handles[h].explicit =>
            /\ ~handles[h].owned /\ ~CanReturn(handles[h])
            /\ handles[h].requests = 1
            /\ handles[h].returned <=> handles[h].result = "Ok"
            /\ handles[h].returned => handles[h].id \notin cserver.active
            /\ handles[h].result \in {"RequestFailed", "HttpError"} =>
                  /\ ~handles[h].returned
                  /\ handles[h].diagnostic
                  /\ handles[h].id \in cserver.active
            /\ handles[h].result = "Ok" => ~handles[h].diagnostic

\* The step in which return_license comes back with its Result, for the reply
\* that its call was given.
C23_Step ==
    \A i \in DOMAIN inflight :
        LET h == inflight[i].handle
            r == inflight[i].reply
        IN  (/\ inflight[i].op = "return"
             /\ handles[h].result = "none" /\ handles'[h].result # "none") =>
                /\ inflight[i].answered
                /\ IF r.kind = "http" /\ IsSuccess(r.status)
                   THEN handles'[h].returned /\ handles'[h].result = "Ok"
                   ELSE /\ ~handles'[h].returned
                        /\ handles'[h].result =
                             (IF r.kind = "transport" THEN "RequestFailed" ELSE "HttpError")
                        /\ handles'[h].diagnostic
                        /\ ~handles'[h].owned
                        /\ handles[h].id \in cserver'.active

\* C23: an explicit return_license that is not answered 2xx gives an error,
\* leaves returned false, uses the handle up all the same (no second return with
\* it), has the drop diagnostic printed and leaves the lease borrowed on the
\* server; returned becomes true only with the 2xx that makes the server drop
\* the lease.
C23_FailedReturn == []C23_State /\ [][C23_Step]_vars

\* One return that failed in transport and one that was refused by status, both
\* calls over, both leases still borrowed, both diagnostics printed.
C23_Witness ==
    \E h, k \in Handles :
        /\ handles[h].explicit /\ handles[h].result = "RequestFailed"
        /\ handles[k].explicit /\ handles[k].result = "HttpError"
        /\ handles[h].diagnostic /\ handles[k].diagnostic
        /\ {handles[h].id, handles[k].id} \subseteq cserver.active

\* C24: the signature a borrow request carries is the valid signature of no
\* other request: every (tool, user, timestamp) that differs from the request's
\* in some field has a different signed payload and so a different signature,
\* also when tool or user contains '|'.
C24_PayloadIdentifiesRequest ==
    (lastBorrow.called /\ client.enable_security) =>
        LET sent == <<lastBorrow.tool, lastBorrow.user, lastBorrow.headers["X-Timestamp"]>>
        IN  \A c \in SignCalls, now \in Clock :
                <<c[1], c[2], GetTimestamp(now)>> # sent =>
                    /\ SignedPayload(c[1], c[2], GetTimestamp(now)) #
                          SignedPayload(sent[1], sent[2], sent[3])
                    /\ GenerateSignature(c[1], c[2], GetTimestamp(now)) #
                          lastBorrow.headers["X-Signature"]

====
